---- MODULE Spec2Model ----
(***************************************************************************)
(* Job orchestration and artifact derivation pipeline of beeprepared:      *)
(* the jobs queue, the dispatcher loop of backend/job_runner.py, the       *)
(* Data Store client of backend/services/db_interface.py, the handlers of  *)
(* backend/handlers, CoreMerger of backend/services/core_merger.py,        *)
(* create_job of backend/main.py and the runner of                         *)
(* backend/services/job_runner.py.                                         *)
(***************************************************************************)
EXTENDS Integers, Sequences, FiniteSets, TLC

(***************************************************************************)
(* Bounds                                                                  *)
(***************************************************************************)
NumRunners == 2
MaxJobs == 2
MaxWiredJobs == 3
MaxSrcId == 3
MaxSources == 2
NumClients == 2
NumCallers == 2
NumProjects == 2
MaxApiJobs == 2
MaxPendingJobs == 2
MaxProjectJobs == 2

Runners == 1..NumRunners
Clients == 1..NumClients
Callers == 1..NumCallers
Projects == 1..NumProjects

(***************************************************************************)
(* Program constants                                                       *)
(***************************************************************************)
\* models/jobs.py JobType
JobType == {"ingest", "extract", "clean", "generate", "render"}
\* models/jobs.py JobStatus
JobStatus == {"pending", "running", "completed", "failed"}

\* job types the enqueuing callers draw from
EnqueuedTypes == {"ingest", "generate", "render"}

NoJob == 0
NoBundle == [job |-> NoJob, artifacts |-> {}, edges |-> {}, renderings |-> {}, result |-> {}]
NoPayload == [source_type |-> "", source_ref |-> FALSE, source_ids |-> <<>>, target_type |-> ""]
\* a row whose payload is drawn when its handler reads it
AnyPayload == [source_type |-> "*", source_ref |-> FALSE, source_ids |-> <<>>, target_type |-> "*"]

VARIABLES
    jobs,        \* jobs table: sequence of rows, the row's index is the job id
    artifacts,   \* artifacts table: set of rows
    edges,       \* artifact_edges table: set of rows
    renderings,  \* renderings table: set of rows
    r2,          \* object storage: set of uploaded objects
    handlers,    \* JobRunner.handlers: job type -> handler
    runner,      \* per runner instance: position in run_loop, claimed job, bundle
    nextId,      \* next fresh artifact id (uuid4)
    claimLog,    \* history: <<runner, job>> for every job claim_job returned
    runLog,      \* history: <<runner, job>> for every handler.run invocation
    failLog,     \* history: jobs fail_job was called for
    lostLog,     \* history: jobs whose fail_job request did not reach the store
    collabLog,   \* history: jobs whose handler invoked a collaborator
    merge,       \* one CoreMerger.merge_cores call: its position and locals
    api,         \* per API client: the create_job request in progress
    svc          \* per caller of services.JobRunner: position, rows read, bundle

store == <<jobs, artifacts, edges, renderings>>
ghost == <<claimLog, runLog, failLog, lostLog, collabLog>>
vars == <<jobs, artifacts, edges, renderings, r2, handlers, runner, nextId,
          claimLog, runLog, failLog, lostLog, collabLog, merge, api, svc>>

\* no merge_cores call in progress
NoMerge == [pc |-> "none", hasModel |-> FALSE, cores |-> <<>>, summaries |-> <<>>,
            contexts |-> <<>>,
            result |-> [source_count |-> 0, source_titles |-> <<>>,
                        all_concepts |-> <<>>, all_facts |-> <<>>],
            calls |-> {}, llm |-> {}]

Idle == [pc |-> "claim", job |-> NoJob, bundle |-> NoBundle, err |-> ""]

\* no create_job request in progress, no services.JobRunner call in progress
NoRequest == [project |-> 0, type |-> "", payload |-> NoPayload]
NoApi == [c \in Clients |-> [pc |-> "idle", req |-> NoRequest]]
NoSvc == [c \in Callers |-> [pc |-> "idle", todo |-> <<>>, bundle |-> NoBundle]]

\* JobRunner.__init__: the registry wires the stub handler for ingest only
Registry == [t \in {"ingest"} |-> "StubHandler"]

Init ==
    /\ jobs = <<>>
    /\ artifacts = {}
    /\ edges = {}
    /\ renderings = {}
    /\ r2 = {}
    /\ handlers = Registry
    /\ runner = [r \in Runners |-> Idle]
    /\ nextId = 1
    /\ claimLog = {}
    /\ runLog = {}
    /\ failLog = {}
    /\ lostLog = {}
    /\ collabLog = {}
    /\ merge = NoMerge
    /\ api = NoApi
    /\ svc = NoSvc

(***************************************************************************)
(* Enqueue: a row inserted into jobs with status pending                   *)
(***************************************************************************)
InsertRow(proj, t, p) ==
    /\ jobs' = Append(jobs, [project |-> proj, type |-> t, status |-> "pending",
                             payload |-> p, result |-> {}, error |-> ""])
    /\ UNCHANGED <<artifacts, edges, renderings, r2, handlers, merge, runner, nextId>>
    /\ UNCHANGED ghost

\* the callers of the runner's queue work in one project
InsertJob(t, p) == InsertRow(1, t, p) /\ UNCHANGED <<api, svc>>

(***************************************************************************)
(* Data Store procedures (db/init.sql), as the Data Store contract states  *)
(* them                                                                    *)
(***************************************************************************)
\* claim_next_job: one pending job becomes running, atomically
claim_next_job(j) ==
    /\ j \in 1..Len(jobs)
    /\ jobs[j].status = "pending"
    /\ jobs' = [jobs EXCEPT ![j].status = "running"]

\* commit_job_bundle: all rows of the bundle and the job's completion, atomically
commit_job_bundle(b) ==
    /\ artifacts' = artifacts \cup b.artifacts
    /\ edges' = edges \cup b.edges
    /\ renderings' = renderings \cup b.renderings
    /\ jobs' = [jobs EXCEPT ![b.job].status = "completed", ![b.job].result = b.result]

(***************************************************************************)
(* DBInterface (services/db_interface.py)                                  *)
(***************************************************************************)
\* variant: the next job is read with a select on status = pending and not
\* transitioned by the store
claim_job_select(r, j) ==
    /\ j \in 1..Len(jobs)
    /\ jobs[j].status = "pending"
    /\ UNCHANGED jobs
    /\ runner' = [runner EXCEPT ![r] = [pc |-> "process", job |-> j, bundle |-> NoBundle,
                                         err |-> ""]]
    /\ claimLog' = claimLog \cup {<<r, j>>}

\* claim_job returns job j to runner r: the RPC answered with the claimed row
claim_job(r, j) ==
    /\ claim_next_job(j)
    /\ runner' = [runner EXCEPT ![r] = [pc |-> "process", job |-> j, bundle |-> NoBundle,
                                         err |-> ""]]
    /\ claimLog' = claimLog \cup {<<r, j>>}

\* claim_job returns None although the RPC ran: the response did not arrive
\* or did not parse, and the except branch swallows the error
claim_job_none(r, j) ==
    /\ claim_next_job(j)
    /\ UNCHANGED <<runner, claimLog>>

\* variant: a rejected commit is logged and not re-raised
commit_bundle_swallow(r, outcome) ==
    LET b == runner[r].bundle IN
    CASE outcome = "returned" ->
           /\ commit_job_bundle(b)
           /\ runner' = [runner EXCEPT ![r] = Idle]
      [] outcome = "rejected" ->
           /\ UNCHANGED store
           /\ runner' = [runner EXCEPT ![r] = Idle]
      [] outcome = "applied_raised" ->
           /\ commit_job_bundle(b)
           /\ runner' = [runner EXCEPT ![r].pc = "fail", ![r].err = "commit_failed"]

\* commit_bundle: one RPC carrying the whole bundle.  It returns, or raises
\* with the transaction rolled back, or raises after the store applied it
\* (the 5 s httpx timeout, or a response body that does not parse).
commit_bundle(r, outcome) ==
    LET b == runner[r].bundle IN
    CASE outcome = "returned" ->
           /\ commit_job_bundle(b)
           /\ runner' = [runner EXCEPT ![r] = Idle]
      [] outcome = "rejected" ->
           /\ UNCHANGED store
           /\ runner' = [runner EXCEPT ![r].pc = "fail", ![r].err = "commit_failed"]
      [] outcome = "applied_raised" ->
           /\ commit_job_bundle(b)
           /\ runner' = [runner EXCEPT ![r].pc = "fail", ![r].err = "commit_failed"]

CommitOutcomes == {"returned", "rejected", "applied_raised"}

\* fail_job: PATCH /jobs?id=eq.<id> {status: failed, error_message}; the
\* request carries no condition on the current status and its HTTP status is
\* not inspected; a transport error is re-raised to the outer handler of
\* run_loop.  Either way a request that did not take effect leaves the row
\* as it was.
fail_job(j, msg, delivered) ==
    /\ failLog' = failLog \cup {j}
    /\ IF delivered
       THEN /\ jobs' = [jobs EXCEPT ![j].status = "failed", ![j].error = msg]
            /\ UNCHANGED lostLog
       ELSE /\ UNCHANGED jobs
            /\ lostLog' = lostLog \cup {j}

(***************************************************************************)
(* Handlers                                                                *)
(***************************************************************************)
Artifact(id, type, j, items, binary) ==
    [id |-> id, type |-> type, job |-> j, items |-> items, binary |-> binary]

\* StubHandler.run (backend/job_runner.py): one "text" artifact, no edges
StubHandler_run(j) ==
    [job |-> j,
     artifacts |-> {Artifact(nextId, "text", j, 0, FALSE)},
     edges |-> {},
     renderings |-> {},
     result |-> {nextId}]

\* what a handler invocation did: raised or returned a bundle, the objects it
\* uploaded, the collaborators it invoked, the fresh ids it drew
Raised(err, uploads, calls, ids) ==
    [err |-> err, bundle |-> NoBundle, uploads |-> uploads, calls |-> calls, ids |-> ids]
Returned(b, uploads, calls, ids) ==
    [err |-> "", bundle |-> b, uploads |-> uploads, calls |-> calls, ids |-> ids]

Upload(j, kind) == [job |-> j, kind |-> kind]

\* handlers/ingest_handler.py
VALID_SOURCE_TYPES == {"youtube", "audio", "video", "pdf", "pptx", "md"}
MinTextLen == 50

\* REQUIRED_FIELDS of the KC-5 check
REQUIRED_FIELDS ==
    {"title", "summary", "concepts", "section_hierarchy", "notes", "definitions",
     "examples", "key_facts"}

\* the collaborators' answers to one IngestHandler.run: the ingestor's
\* status, the extractor's text and its length, the cleaner, and the core
\* service's result: an exception, nothing, a core with the named field
\* empty, a core with a forbidden token in a text field, or a valid core
IngestEnv ==
    [ingest : {"COMPLETED", "FAILED"},
     extract : {"raises", "text"},
     textLen : {MinTextLen - 1, MinTextLen},
     clean : {"raises", "text"},
     core : {"raises", "none", "forbidden_token", "valid"} \cup REQUIRED_FIELDS]

\* variant: the bundle carries the edge Source -> Core of the class docstring
IngestHandler_run_edge(j, p, env) ==
    IF p.source_type \notin VALID_SOURCE_TYPES THEN Raised("invalid_source_type", {}, {}, 0)
    ELSE IF ~p.source_ref THEN Raised("source_ref_required", {}, {}, 0)
    ELSE IF env.ingest = "FAILED" THEN Raised("ingestion_failed", {}, {"ingestor"}, 0)
    ELSE LET up == {Upload(j, "source")} IN
    IF env.extract = "raises" THEN Raised("extraction_error", up, {"ingestor", "extractor"}, 0)
    ELSE IF env.textLen < MinTextLen
    THEN Raised("text_too_short", up, {"ingestor", "extractor"}, 0)
    ELSE IF env.clean = "raises"
    THEN Raised("cleaning_error", up, {"ingestor", "extractor", "cleaner"}, 0)
    ELSE LET calls == {"ingestor", "extractor", "cleaner", "core_service"} IN
    IF env.core = "raises" THEN Raised("core_service_error", up, calls, 0)
    ELSE IF env.core = "none" THEN Raised("core_generation_failed", up, calls, 0)
    ELSE IF env.core \in REQUIRED_FIELDS THEN Raised("kc5_violation", up, calls, 0)
    ELSE IF env.core = "forbidden_token" THEN Raised("kc4_violation", up, calls, 0)
    ELSE Returned([job |-> j,
                   artifacts |-> {Artifact(nextId, p.source_type, j, 0, FALSE),
                                  Artifact(nextId + 1, "knowledge_core", j, 1, FALSE)},
                   edges |-> {[parent |-> nextId, child |-> nextId + 1, n |-> 1]},
                   renderings |-> {},
                   result |-> {nextId, nextId + 1}],
                  up, calls, 2)

\* variant: key_facts is missing from REQUIRED_FIELDS
IngestHandler_run_nofacts(j, p, env) ==
    IF p.source_type \notin VALID_SOURCE_TYPES THEN Raised("invalid_source_type", {}, {}, 0)
    ELSE IF ~p.source_ref THEN Raised("source_ref_required", {}, {}, 0)
    ELSE IF env.ingest = "FAILED" THEN Raised("ingestion_failed", {}, {"ingestor"}, 0)
    ELSE LET up == {Upload(j, "source")} IN
    IF env.extract = "raises" THEN Raised("extraction_error", up, {"ingestor", "extractor"}, 0)
    ELSE IF env.textLen < MinTextLen
    THEN Raised("text_too_short", up, {"ingestor", "extractor"}, 0)
    ELSE IF env.clean = "raises"
    THEN Raised("cleaning_error", up, {"ingestor", "extractor", "cleaner"}, 0)
    ELSE LET calls == {"ingestor", "extractor", "cleaner", "core_service"} IN
    IF env.core = "raises" THEN Raised("core_service_error", up, calls, 0)
    ELSE IF env.core = "none" THEN Raised("core_generation_failed", up, calls, 0)
    ELSE IF env.core \in REQUIRED_FIELDS \ {"key_facts"}
    THEN Raised("kc5_violation", up, calls, 0)
    ELSE IF env.core = "forbidden_token" THEN Raised("kc4_violation", up, calls, 0)
    ELSE Returned([job |-> j,
                   artifacts |-> {Artifact(nextId, p.source_type, j, 0, FALSE),
                                  Artifact(nextId + 1, "knowledge_core", j, 1, FALSE)},
                   edges |-> {},
                   renderings |-> {},
                   result |-> {nextId, nextId + 1}],
                  up, calls, 2)

\* IngestHandler.run
IngestHandler_run(j, p, env) ==
    IF p.source_type \notin VALID_SOURCE_TYPES THEN Raised("invalid_source_type", {}, {}, 0)
    ELSE IF ~p.source_ref THEN Raised("source_ref_required", {}, {}, 0)
    ELSE IF env.ingest = "FAILED" THEN Raised("ingestion_failed", {}, {"ingestor"}, 0)
    ELSE LET up == {Upload(j, "source")} IN
    IF env.extract = "raises" THEN Raised("extraction_error", up, {"ingestor", "extractor"}, 0)
    ELSE IF env.textLen < MinTextLen
    THEN Raised("text_too_short", up, {"ingestor", "extractor"}, 0)
    ELSE IF env.clean = "raises"
    THEN Raised("cleaning_error", up, {"ingestor", "extractor", "cleaner"}, 0)
    ELSE LET calls == {"ingestor", "extractor", "cleaner", "core_service"} IN
    IF env.core = "raises" THEN Raised("core_service_error", up, calls, 0)
    ELSE IF env.core = "none" THEN Raised("core_generation_failed", up, calls, 0)
    ELSE IF env.core \in REQUIRED_FIELDS THEN Raised("kc5_violation", up, calls, 0)
    ELSE IF env.core = "forbidden_token" THEN Raised("kc4_violation", up, calls, 0)
    ELSE Returned([job |-> j,
                   artifacts |-> {Artifact(nextId, p.source_type, j, 0, FALSE),
                                  Artifact(nextId + 1, "knowledge_core", j, 1, FALSE)},
                   edges |-> {},
                   renderings |-> {},
                   result |-> {nextId, nextId + 1}],
                  up, calls, 2)

\* handlers/generate_handler.py
ALLOWED_GENERATIONS ==
    [t \in {"knowledge_core", "quiz", "exam", "slides", "notes", "flashcards"} |->
        CASE t = "knowledge_core" -> {"quiz", "exam", "notes", "slides", "flashcards"}
          [] t = "quiz" -> {"flashcards", "exam", "notes", "slides"}
          [] t = "exam" -> {"quiz", "notes", "slides", "flashcards"}
          [] t = "slides" -> {"quiz", "exam", "notes", "flashcards"}
          [] t = "notes" -> {"quiz", "exam", "slides", "flashcards"}
          [] t = "flashcards" -> {"quiz", "exam", "notes", "slides"}]

TargetTypes == {"quiz", "exam", "notes", "slides", "flashcards"}
ChainTypes == {"notes", "text", "flat_text", "transcription", "quiz", "flashcards", "exam", "slides"}

MinQuiz == 5
MinFlashcards == 5
MinSlides == 3
MinExam == 10
MinNotesBody == 200

\* MIN_REQUIREMENTS of _validate_artifact_semantics
MinItems(t) ==
    CASE t = "quiz" -> MinQuiz
      [] t = "flashcards" -> MinFlashcards
      [] t = "slides" -> MinSlides
      [] t = "exam" -> MinExam
      [] OTHER -> 0

\* len(data.get("body", "")) of a dumped NotesModel, which has no body field
NotesBodyLen == 0

\* _validate_artifact_semantics: TRUE when it returns, FALSE when it raises
validate_artifact_semantics(t, items) ==
    IF t = "notes" THEN NotesBodyLen >= MinNotesBody
    ELSE IF t \notin {"quiz", "flashcards", "slides", "exam"} THEN TRUE
    ELSE items >= MinItems(t)

\* DBInterface.get_artifact: the rows with that id (none or one)
get_artifact(id) == {a \in artifacts : a.id = id}

\* DBInterface.get_parent_edge, then the parent's type
HasCoreParent(id) ==
    \E e \in edges : /\ e.child = id
                     /\ \E a \in get_artifact(e.parent) : a.type = "knowledge_core"

\* _extract_content_as_text: does the artifact give a non-empty text
HasText(a) ==
    CASE a.type = "notes" -> FALSE
      [] a.type \in {"quiz", "flashcards", "exam", "slides"} -> TRUE
      [] OTHER -> a.type = "text"

\* variant: a source id that is not found is skipped instead of raising
ResolveSource_skip(id, nsrc, target) ==
    IF get_artifact(id) = {} THEN "skipped"
    ELSE LET a == CHOOSE x \in get_artifact(id) : TRUE IN
    IF nsrc = 1 /\ a.type = "quiz" /\ target = "flashcards"
    THEN (IF a.items = 0 THEN "no_questions" ELSE "direct")
    ELSE IF a.type = "knowledge_core" THEN "core"
    ELSE IF a.type \in ChainTypes /\ HasText(a) THEN "synthetic"
    ELSE IF HasCoreParent(id) THEN "core"
    ELSE "unresolved"

\* one iteration of the loop over source_ids
ResolveSource(id, nsrc, target) ==
    IF get_artifact(id) = {} THEN "not_found"
    ELSE LET a == CHOOSE x \in get_artifact(id) : TRUE IN
    IF nsrc = 1 /\ a.type = "quiz" /\ target = "flashcards"
    THEN (IF a.items = 0 THEN "no_questions" ELSE "direct")
    ELSE IF a.type = "knowledge_core" THEN "core"
    ELSE IF a.type \in ChainTypes /\ HasText(a) THEN "synthetic"
    ELSE IF HasCoreParent(id) THEN "core"
    ELSE "unresolved"

ResolveErrors == {"not_found", "no_questions", "unresolved"}

\* the collaborators' answers to one GenerateHandler.run
GenerateEnv ==
    [gen : {"none", "model"},
     rich : BOOLEAN,
     render : {"none", "stored"}]

\* variant: the edges are built with parent and child exchanged
finalize_job_reversed(j, ids, target, items, calls, env) ==
    IF items < 0 THEN Raised("generation_failed", {}, calls, 0)
    ELSE IF ~validate_artifact_semantics(target, items)
    THEN Raised("semantic_validation", {}, calls, 0)
    ELSE LET binary == target \in {"exam", "slides"}
             calls2 == IF binary THEN calls \cup {"renderer"} ELSE calls
         IN
    IF binary /\ env.render = "none" THEN Raised("binary_failed", {}, calls2, 1)
    ELSE Returned([job |-> j,
                   artifacts |-> {Artifact(nextId, target, j, items, binary)},
                   edges |-> {[parent |-> nextId, child |-> ids[i], n |-> i] : i \in 1..Len(ids)},
                   renderings |-> {},
                   result |-> {nextId}],
                  IF binary THEN {Upload(j, "binary")} ELSE {},
                  calls2, 1)

\* variant: the generated model is not validated before the bundle is built
finalize_job_unchecked(j, ids, target, items, calls, env) ==
    IF items < 0 THEN Raised("generation_failed", {}, calls, 0)
    ELSE LET binary == target \in {"exam", "slides"}
             calls2 == IF binary THEN calls \cup {"renderer"} ELSE calls
         IN
    IF binary /\ env.render = "none" THEN Raised("binary_failed", {}, calls2, 1)
    ELSE Returned([job |-> j,
                   artifacts |-> {Artifact(nextId, target, j, items, binary)},
                   edges |-> {[parent |-> ids[i], child |-> nextId, n |-> i] : i \in 1..Len(ids)},
                   renderings |-> {},
                   result |-> {nextId}],
                  IF binary THEN {Upload(j, "binary")} ELSE {},
                  calls2, 1)

\* variant: a missing binary is tolerated and the artifact is built without it
finalize_job_nobinary(j, ids, target, items, calls, env) ==
    IF items < 0 THEN Raised("generation_failed", {}, calls, 0)
    ELSE IF ~validate_artifact_semantics(target, items)
    THEN Raised("semantic_validation", {}, calls, 0)
    ELSE LET binary == target \in {"exam", "slides"}
             stored == binary /\ env.render = "stored"
             calls2 == IF binary THEN calls \cup {"renderer"} ELSE calls
         IN
    Returned([job |-> j,
              artifacts |-> {Artifact(nextId, target, j, items, stored)},
              edges |-> {[parent |-> ids[i], child |-> nextId, n |-> i] : i \in 1..Len(ids)},
              renderings |-> {},
              result |-> {nextId}],
             IF stored THEN {Upload(j, "binary")} ELSE {},
             calls2, 1)

\* _finalize_job
finalize_job(j, ids, target, items, calls, env) ==
    IF items < 0 THEN Raised("generation_failed", {}, calls, 0)
    ELSE IF ~validate_artifact_semantics(target, items)
    THEN Raised("semantic_validation", {}, calls, 0)
    ELSE LET binary == target \in {"exam", "slides"}
             calls2 == IF binary THEN calls \cup {"renderer"} ELSE calls
         IN
    IF binary /\ env.render = "none" THEN Raised("binary_failed", {}, calls2, 1)
    ELSE Returned([job |-> j,
                   artifacts |-> {Artifact(nextId, target, j, items, binary)},
                   edges |-> {[parent |-> ids[i], child |-> nextId, n |-> i] : i \in 1..Len(ids)},
                   renderings |-> {},
                   result |-> {nextId}],
                  IF binary THEN {Upload(j, "binary")} ELSE {},
                  calls2, 1)

\* GenerateHandler.run
GenerateHandler_run(j, p, env) ==
    LET ids == p.source_ids
        target == p.target_type
        res == [i \in 1..Len(ids) |-> ResolveSource(ids[i], Len(ids), target)]
    IN
    IF ids = <<>> THEN Raised("source_ids_required", {}, {}, 0)
    ELSE IF target = "" THEN Raised("target_type_required", {}, {}, 0)
    ELSE IF \E i \in 1..Len(ids) : res[i] \in ResolveErrors
    THEN LET first == CHOOSE i \in 1..Len(ids) :
                          /\ res[i] \in ResolveErrors
                          /\ \A k \in 1..(i - 1) : res[k] \notin ResolveErrors
         IN Raised(res[first], {}, {}, 0)
    ELSE IF res[1] = "direct"
    THEN finalize_job(j, ids, target,
                      (CHOOSE a \in get_artifact(ids[1]) : TRUE).items, {}, env)
    ELSE LET merged == Len(ids) > 1 /\ \E i \in 1..Len(ids) : res[i] = "core"
             calls == IF merged THEN {"core_merger"} ELSE {}
         IN
    IF target \notin TargetTypes THEN Raised("unknown_target", {}, calls, 0)
    ELSE finalize_job(j, ids, target,
                      IF env.gen = "none" THEN -1
                      ELSE IF env.rich THEN MinItems(target) ELSE MinItems(target) - 1,
                      calls \cup {"generator"}, env)

(***************************************************************************)
(* JobRunner.run_loop (backend/job_runner.py)                              *)
(***************************************************************************)
\* 1. Claim
Claim(r) ==
    /\ runner[r].pc = "claim"
    /\ \E j \in 1..Len(jobs) : claim_job(r, j)
    /\ UNCHANGED <<artifacts, edges, renderings, r2, handlers, merge, api, svc, nextId>>
    /\ UNCHANGED <<runLog, failLog, lostLog, collabLog>>

ClaimNone(r) ==
    /\ runner[r].pc = "claim"
    /\ \E j \in 1..Len(jobs) : claim_job_none(r, j)
    /\ UNCHANGED <<artifacts, edges, renderings, r2, handlers, merge, api, svc, nextId>>
    /\ UNCHANGED <<runLog, failLog, lostLog, collabLog>>

\* 2. Process: handler lookup
HandlerOf(t) == IF t \in DOMAIN handlers THEN handlers[t] ELSE "none"

\* variant: the ValueError is raised outside the inner try, so that only the
\* outer handler of the loop sees it
NoHandler_outer(r) ==
    /\ runner[r].pc = "process"
    /\ HandlerOf(jobs[runner[r].job].type) = "none"
    /\ runner' = [runner EXCEPT ![r] = Idle]
    /\ UNCHANGED <<jobs, artifacts, edges, renderings, r2, handlers, merge, api, svc, nextId>>
    /\ UNCHANGED ghost

\* variant: an unregistered type falls back to the stub handler
NoHandler_default(r) ==
    /\ runner[r].pc = "process"
    /\ HandlerOf(jobs[runner[r].job].type) = "none"
    /\ runner' = [runner EXCEPT ![r].pc = "commit",
                                ![r].bundle = StubHandler_run(runner[r].job)]
    /\ nextId' = nextId + 1
    /\ runLog' = runLog \cup {<<r, runner[r].job>>}
    /\ UNCHANGED <<jobs, artifacts, edges, renderings, r2, handlers, merge, api, svc>>
    /\ UNCHANGED <<claimLog, failLog, lostLog, collabLog>>

NoHandler(r) ==
    /\ runner[r].pc = "process"
    /\ HandlerOf(jobs[runner[r].job].type) = "none"
    /\ runner' = [runner EXCEPT ![r].pc = "fail", ![r].err = "no_handler"]
    /\ UNCHANGED <<jobs, artifacts, edges, renderings, r2, handlers, merge, api, svc, nextId>>
    /\ UNCHANGED ghost

RunStub(r) ==
    /\ runner[r].pc = "process"
    /\ HandlerOf(jobs[runner[r].job].type) = "StubHandler"
    /\ runner' = [runner EXCEPT ![r].pc = "commit",
                                ![r].bundle = StubHandler_run(runner[r].job)]
    /\ nextId' = nextId + 1
    /\ runLog' = runLog \cup {<<r, runner[r].job>>}
    /\ UNCHANGED <<jobs, artifacts, edges, renderings, r2, handlers, merge, api, svc>>
    /\ UNCHANGED <<claimLog, failLog, lostLog, collabLog>>

\* 3. Commit
Commit(r) ==
    /\ runner[r].pc = "commit"
    /\ \E outcome \in CommitOutcomes : commit_bundle(r, outcome)
    /\ UNCHANGED <<r2, handlers, merge, api, svc, nextId>>
    /\ UNCHANGED <<claimLog, runLog, failLog, lostLog, collabLog>>

\* except Exception: fail_job, then the next iteration (directly, or through
\* the outer except and its sleep when fail_job raised)
Fail(r) ==
    /\ runner[r].pc = "fail"
    /\ \E delivered \in BOOLEAN : fail_job(runner[r].job, runner[r].err, delivered)
    /\ runner' = [runner EXCEPT ![r] = Idle]
    /\ UNCHANGED <<artifacts, edges, renderings, r2, handlers, merge, api, svc, nextId>>
    /\ UNCHANGED <<claimLog, runLog, collabLog>>

Enqueue ==
    /\ Len(jobs) < MaxJobs
    /\ \E t \in EnqueuedTypes : InsertJob(t, AnyPayload)

Next ==
    \/ Enqueue
    \/ \E r \in Runners : Claim(r)
    \/ \E r \in Runners : ClaimNone(r)
    \/ \E r \in Runners : NoHandler(r)
    \/ \E r \in Runners : RunStub(r)
    \/ \E r \in Runners : Commit(r)
    \/ \E r \in Runners : Fail(r)

Spec == Init /\ [][Next]_vars

\* the loop never stops between two awaits: a runner that holds a job goes on
FairSpec ==
    /\ Spec
    /\ \A r \in Runners :
          /\ WF_vars(NoHandler(r))
          /\ WF_vars(RunStub(r))
          /\ WF_vars(Commit(r))
          /\ WF_vars(Fail(r))

(***************************************************************************)
(* The handlers of backend/handlers driven through the registry, one job   *)
(* at a time: claim, handler.run, commit_bundle or fail_job                *)
(***************************************************************************)
WiredRunners == {1}

WiredRegistry ==
    [t \in {"ingest", "generate"} |->
        IF t = "ingest" THEN "IngestHandler" ELSE "GenerateHandler"]

InitWired ==
    /\ jobs = <<>>
    /\ artifacts = {}
    /\ edges = {}
    /\ renderings = {}
    /\ r2 = {}
    /\ handlers = WiredRegistry
    /\ runner = [r \in WiredRunners |-> Idle]
    /\ nextId = 1
    /\ claimLog = {}
    /\ runLog = {}
    /\ failLog = {}
    /\ lostLog = {}
    /\ collabLog = {}
    /\ merge = NoMerge
    /\ api = NoApi
    /\ svc = NoSvc

\* await handler.run(job): the bundle, or the exception caught by run_loop
RunHandler(r, out) ==
    /\ runner' = [runner EXCEPT ![r].pc = IF out.err # "" THEN "fail" ELSE "commit",
                                ![r].bundle = out.bundle,
                                ![r].err = out.err]
    /\ r2' = r2 \cup out.uploads
    /\ nextId' = nextId + out.ids
    /\ collabLog' = IF out.calls = {} THEN collabLog ELSE collabLog \cup {runner[r].job}
    /\ runLog' = runLog \cup {<<r, runner[r].job>>}
    /\ UNCHANGED <<jobs, artifacts, edges, renderings, handlers, merge, api, svc>>
    /\ UNCHANGED <<claimLog, failLog, lostLog>>

\* payloads the enqueuing callers draw from
SourceIdSeqs == UNION {[1..n -> 1..MaxSrcId] : n \in 0..MaxSources}
EnqueuedTargets == {"quiz", "flashcards", "exam", "slides", "notes", "knowledge_core", ""}
IngestPayloads ==
    {[source_type |-> s, source_ref |-> b, source_ids |-> <<>>, target_type |-> ""] :
        s \in {"md", "docx"}, b \in BOOLEAN}
GeneratePayloads ==
    {[source_type |-> "", source_ref |-> FALSE, source_ids |-> ids, target_type |-> t] :
        ids \in SourceIdSeqs, t \in EnqueuedTargets}

\* job.payload as the handler reads it
PayloadsOf(row, domain) == IF row.payload = AnyPayload THEN domain ELSE {row.payload}

RunIngest(r) ==
    /\ runner[r].pc = "process"
    /\ HandlerOf(jobs[runner[r].job].type) = "IngestHandler"
    /\ \E p \in PayloadsOf(jobs[runner[r].job], IngestPayloads), env \in IngestEnv :
          RunHandler(r, IngestHandler_run(runner[r].job, p, env))

RunGenerate(r) ==
    /\ runner[r].pc = "process"
    /\ HandlerOf(jobs[runner[r].job].type) = "GenerateHandler"
    /\ \E p \in PayloadsOf(jobs[runner[r].job], GeneratePayloads), env \in GenerateEnv :
          RunHandler(r, GenerateHandler_run(runner[r].job, p, env))

EnqueueWired ==
    /\ Len(jobs) < MaxWiredJobs
    /\ \E t \in EnqueuedTypes : InsertJob(t, AnyPayload)

NextWired ==
    \/ EnqueueWired
    \/ \E r \in WiredRunners : Claim(r)
    \/ \E r \in WiredRunners : ClaimNone(r)
    \/ \E r \in WiredRunners : NoHandler(r)
    \/ \E r \in WiredRunners : RunIngest(r)
    \/ \E r \in WiredRunners : RunGenerate(r)
    \/ \E r \in WiredRunners : Commit(r)
    \/ \E r \in WiredRunners : Fail(r)

SpecWired == InitWired /\ [][NextWired]_vars

(***************************************************************************)
(* The wired runner on a store that holds the jobs of several projects     *)
(***************************************************************************)
EnqueueProjects ==
    /\ Len(jobs) < MaxProjectJobs
    /\ \E proj \in Projects, t \in EnqueuedTypes : InsertRow(proj, t, AnyPayload)
    /\ UNCHANGED <<api, svc>>

NextProjects ==
    \/ EnqueueProjects
    \/ \E r \in WiredRunners : Claim(r)
    \/ \E r \in WiredRunners : ClaimNone(r)
    \/ \E r \in WiredRunners : NoHandler(r)
    \/ \E r \in WiredRunners : RunIngest(r)
    \/ \E r \in WiredRunners : RunGenerate(r)
    \/ \E r \in WiredRunners : Commit(r)
    \/ \E r \in WiredRunners : Fail(r)

SpecProjects == InitWired /\ [][NextProjects]_vars

(***************************************************************************)
(* CoreMerger (services/core_merger.py).  A core is its title, its         *)
(* sequence of concept names and its sequence of key facts.  The LLM model *)
(* may be absent (no GEMINI_API_KEY); when present each generate_content   *)
(* call raises, returns no text, returns text that does not parse or       *)
(* validate, or returns a valid answer.                                    *)
(***************************************************************************)
MaxCores == 7
MaxModelCores == 4
ListLen == 6
NumLists == 3

SummaryCap == 7
MergeCap == 15
DirectMax == 3

\* a plain title, and the f"Merged: {', '.join(...)}" title of a re-wrapped
\* intermediate context
Title(i) == [merged |-> FALSE, names |-> <<i>>]

RECURSIVE JoinNames(_)
JoinNames(ts) ==
    IF ts = <<>> THEN <<>>
    ELSE JoinNames(SubSeq(ts, 1, Len(ts) - 1)) \o ts[Len(ts)].names

MergedTitle(ts) == [merged |-> TRUE, names |-> JoinNames(ts)]

\* the concept and fact lists the input cores draw from: runs of names that
\* overlap in one element
ConceptLists == [b \in 0..(NumLists - 1) |->
                    [i \in 1..ListLen |-> (ListLen - 1) * b + i]]
FactLists == [b \in 0..(NumLists - 1) |->
                 [i \in 1..ListLen |-> 100 + (ListLen - 1) * b + i]]

Core(b, i) == [title |-> Title(i), concepts |-> ConceptLists[b], facts |-> FactLists[b]]

CoreInputs(max) ==
    UNION {{[i \in 1..n |-> Core(f[i], i)] : f \in [1..n -> 0..(NumLists - 1)]} :
              n \in 0..max}

\* what one generate_content call can come to
LLMFailure(kind) == [kind |-> kind, concepts |-> <<>>, facts |-> <<>>]
LLMAnswer(n) == [kind |-> "valid",
                 concepts |-> [i \in 1..n |-> 50 + i],
                 facts |-> [i \in 1..n |-> 150 + i]]
LLMFailures == {LLMFailure(k) : k \in {"raises", "empty", "malformed"}}
SummarizeResponses == LLMFailures \cup {LLMAnswer(SummaryCap), LLMAnswer(SummaryCap + 1)}
MergeResponses == LLMFailures \cup {LLMAnswer(SummaryCap + 1)}
NoResponse == LLMFailure("absent")

ResponsesOf(hasModel, responses) == IF hasModel THEN responses ELSE {NoResponse}

NoContext == [source_count |-> 0, source_titles |-> <<>>,
              all_concepts |-> <<>>, all_facts |-> <<>>]

Take(s, n) == SubSeq(s, 1, IF Len(s) < n THEN Len(s) ELSE n)

\* list(dict.fromkeys(s)): the first occurrence of every element, in order
RECURSIVE Dedup(_)
Dedup(s) ==
    IF s = <<>> THEN <<>>
    ELSE LET init == Dedup(SubSeq(s, 1, Len(s) - 1))
             last == s[Len(s)]
         IN IF \E k \in 1..Len(init) : init[k] = last THEN init ELSE Append(init, last)

RECURSIVE Extend(_)
Extend(ss) == IF ss = <<>> THEN <<>> ELSE Extend(SubSeq(ss, 1, Len(ss) - 1)) \o ss[Len(ss)]

\* _fallback_summarize: the first 7 concepts and the first 7 facts of the core
fallback_summarize(core) ==
    [source_title |-> core.title,
     key_concepts |-> Take(core.concepts, SummaryCap),
     key_facts |-> Take(core.facts, SummaryCap)]

\* summarize_core: the model's answer as it came, or the fallback when there
\* is no model or the call failed
summarize_core(core, hasModel, resp) ==
    IF hasModel /\ resp.kind = "valid"
    THEN [source_title |-> core.title,
          key_concepts |-> resp.concepts,
          key_facts |-> resp.facts]
    ELSE fallback_summarize(core)

\* _fallback_merge: concatenate, deduplicate, keep the first 15
fallback_merge(summaries) ==
    [source_count |-> Len(summaries),
     source_titles |-> [k \in 1..Len(summaries) |-> summaries[k].source_title],
     all_concepts |-> Take(Dedup(Extend([k \in 1..Len(summaries) |->
                                            summaries[k].key_concepts])), MergeCap),
     all_facts |-> Take(Dedup(Extend([k \in 1..Len(summaries) |->
                                         summaries[k].key_facts])), MergeCap)]

\* merge_summaries without the single-summary return
merge_summaries_nopass(summaries, hasModel, resp) ==
    IF hasModel /\ resp.kind = "valid"
    THEN [source_count |-> Len(summaries),
          source_titles |-> [k \in 1..Len(summaries) |-> summaries[k].source_title],
          all_concepts |-> resp.concepts,
          all_facts |-> resp.facts]
    ELSE fallback_merge(summaries)

\* merge_summaries of one or more summaries
merge_summaries(summaries, hasModel, resp) ==
    IF Len(summaries) = 1
    THEN [source_count |-> 1,
          source_titles |-> <<summaries[1].source_title>>,
          all_concepts |-> summaries[1].key_concepts,
          all_facts |-> summaries[1].key_facts]
    ELSE IF hasModel /\ resp.kind = "valid"
    THEN [source_count |-> Len(summaries),
          source_titles |-> [k \in 1..Len(summaries) |-> summaries[k].source_title],
          all_concepts |-> resp.concepts,
          all_facts |-> resp.facts]
    ELSE fallback_merge(summaries)

\* the generate_content calls one merge_summaries makes
MergeCalls(summaries, hasModel) ==
    IF hasModel /\ Len(summaries) > 1 THEN {"merge"} ELSE {}

SummarizeCalls(hasModel) == IF hasModel THEN {"summarize"} ELSE {}

\* merge_cores: no cores
MergeZero ==
    /\ merge.pc = "start"
    /\ Len(merge.cores) = 0
    /\ merge' = [merge EXCEPT !.pc = "raised"]

\* merge_cores: one core
MergeSingle ==
    /\ merge.pc = "start"
    /\ Len(merge.cores) = 1
    /\ \E rs \in ResponsesOf(merge.hasModel, SummarizeResponses),
          rm \in ResponsesOf(merge.hasModel, MergeResponses) :
          LET summary == summarize_core(merge.cores[1], merge.hasModel, rs) IN
          merge' = [merge EXCEPT
                       !.pc = "done",
                       !.summaries = <<summary>>,
                       !.calls = @ \cup {1},
                       !.llm = @ \cup SummarizeCalls(merge.hasModel)
                                 \cup MergeCalls(<<summary>>, merge.hasModel),
                       !.result = merge_summaries(<<summary>>, merge.hasModel, rm)]

\* summarize all cores, with an exception of generate_content left uncaught
Summarize_uncaught ==
    /\ merge.pc = "start"
    /\ Len(merge.cores) > 1
    /\ \E rs \in [1..Len(merge.cores) -> ResponsesOf(merge.hasModel, SummarizeResponses)] :
          merge' = [merge EXCEPT
                       !.pc = IF \E i \in 1..Len(merge.cores) : rs[i].kind = "raises"
                              THEN "raised"
                              ELSE IF Len(merge.cores) <= DirectMax THEN "direct" ELSE "pairs",
                       !.llm = @ \cup SummarizeCalls(merge.hasModel),
                       !.summaries = [i \in 1..Len(merge.cores) |->
                                         summarize_core(merge.cores[i], merge.hasModel, rs[i])]]

\* merge_cores: summarize all cores
Summarize ==
    /\ merge.pc = "start"
    /\ Len(merge.cores) > 1
    /\ \E rs \in [1..Len(merge.cores) -> ResponsesOf(merge.hasModel, SummarizeResponses)] :
          merge' = [merge EXCEPT
                       !.pc = IF Len(merge.cores) <= DirectMax THEN "direct" ELSE "pairs",
                       !.llm = @ \cup SummarizeCalls(merge.hasModel),
                       !.summaries = [i \in 1..Len(merge.cores) |->
                                         summarize_core(merge.cores[i], merge.hasModel, rs[i])]]

\* merge_cores: direct merge of 2 or 3 summaries
MergeDirect ==
    /\ merge.pc = "direct"
    /\ \E rm \in ResponsesOf(merge.hasModel, MergeResponses) :
          merge' = [merge EXCEPT
                       !.pc = "done",
                       !.calls = @ \cup {Len(merge.summaries)},
                       !.llm = @ \cup MergeCalls(merge.summaries, merge.hasModel),
                       !.result = merge_summaries(merge.summaries, merge.hasModel, rm)]

\* merge_cores: one iteration of the pair-wise loop
MergePair ==
    /\ merge.pc = "pairs"
    /\ LET i == 2 * Len(merge.contexts) + 1
           pair == SubSeq(merge.summaries, i,
                          IF i + 1 <= Len(merge.summaries) THEN i + 1 ELSE i)
       IN /\ i <= Len(merge.summaries)
          /\ \E rm \in ResponsesOf(merge.hasModel, MergeResponses) :
                merge' = [merge EXCEPT
                             !.contexts = Append(@, merge_summaries(pair, merge.hasModel, rm)),
                             !.llm = @ \cup MergeCalls(pair, merge.hasModel),
                             !.calls = @ \cup {Len(pair)}]

\* the intermediate contexts re-wrapped as summaries: a "Merged: ..." title
\* and the first 7 concepts and facts
final_summaries(contexts) ==
    [k \in 1..Len(contexts) |->
        [source_title |-> MergedTitle(contexts[k].source_titles),
         key_concepts |-> Take(contexts[k].all_concepts, SummaryCap),
         key_facts |-> Take(contexts[k].all_facts, SummaryCap)]]

\* merge_cores: the re-wrapped intermediate contexts merged in one call
MergeFinal ==
    /\ merge.pc = "pairs"
    /\ 2 * Len(merge.contexts) + 1 > Len(merge.summaries)
    /\ \E rm \in ResponsesOf(merge.hasModel, MergeResponses) :
          LET final == final_summaries(merge.contexts) IN
          merge' = [merge EXCEPT
                       !.pc = "done",
                       !.calls = @ \cup {Len(final)},
                       !.llm = @ \cup MergeCalls(final, merge.hasModel),
                       !.result = merge_summaries(final, merge.hasModel, rm)]

InitMerge ==
    /\ jobs = <<>>
    /\ artifacts = {}
    /\ edges = {}
    /\ renderings = {}
    /\ r2 = {}
    /\ handlers = Registry
    /\ runner = [r \in Runners |-> Idle]
    /\ nextId = 1
    /\ claimLog = {}
    /\ runLog = {}
    /\ failLog = {}
    /\ lostLog = {}
    /\ collabLog = {}
    /\ \E m \in BOOLEAN :
          \E cs \in CoreInputs(IF m THEN MaxModelCores ELSE MaxCores) :
             merge = [NoMerge EXCEPT !.pc = "start", !.hasModel = m, !.cores = cs]
    /\ api = NoApi
    /\ svc = NoSvc

NextMerge ==
    /\ \/ MergeZero
       \/ MergeSingle
       \/ Summarize
       \/ MergeDirect
       \/ MergePair
       \/ MergeFinal
    /\ UNCHANGED <<jobs, artifacts, edges, renderings, r2, handlers, runner, nextId>>
    /\ UNCHANGED <<api, svc>>
    /\ UNCHANGED ghost

SpecMerge == InitMerge /\ [][NextMerge]_vars

(***************************************************************************)
(* POST /api/jobs (backend/main.py and backend/api.py, create_job).  The   *)
(* body of a generate request names its source in source_artifact_id, in   *)
(* source_artifact_ids, in both or in neither; the store is read by the    *)
(* idempotency check and written by the insert in separate requests, and   *)
(* requests served by different server processes interleave between them.  *)
(* The rows stay pending here: what the runner does to them is in Spec.    *)
(***************************************************************************)
NoSource == 0
NoTarget == "absent"

\* request bodies the clients draw from
GenerateBodies ==
    {[source_artifact_id |-> a, source_artifact_ids |-> ids, target_type |-> t] :
        a \in {NoSource, 1}, ids \in {<<>>, <<1>>, <<2>>},
        t \in {"quiz", "notes", NoTarget}}
IngestBodies ==
    {[source_type |-> "md", source_ref |-> b, source_ids |-> <<>>, target_type |-> ""] :
        b \in BOOLEAN}
ApiRequests ==
    {[project |-> proj, type |-> t, payload |-> p] :
        proj \in Projects, t \in {"generate"}, p \in GenerateBodies}
    \cup {[project |-> proj, type |-> t, payload |-> p] :
            proj \in Projects, t \in {"ingest", "render"}, p \in IngestBodies}

\* the job type check and IngestPayload(**payload) / GeneratePayload(**payload)
ValidRequest(req) ==
    /\ req.type \in {"ingest", "generate"}
    /\ req.type = "ingest" => req.payload.source_ref
    /\ req.type = "generate" => req.payload.target_type # NoTarget

\* the idempotency check: the jobs of the project, of type generate, pending,
\* running or completed, whose payload has the request's source_artifact_id
\* and target_type
IdempotentMatches(req) ==
    IF req.type # "generate" THEN {}
    ELSE {j \in 1..Len(jobs) :
            /\ jobs[j].project = req.project
            /\ jobs[j].type = "generate"
            /\ jobs[j].status \in {"completed", "running", "pending"}
            /\ jobs[j].payload.source_artifact_id = req.payload.source_artifact_id
            /\ jobs[j].payload.target_type = req.payload.target_type}

\* create_job answers 4xx: the project is not the user's, or the type or the
\* payload is invalid
CreateJobRejected(c) ==
    /\ api[c].pc = "idle"
    /\ \E req \in ApiRequests, owned \in BOOLEAN : ~owned \/ ~ValidRequest(req)
    /\ UNCHANGED vars

\* create_job answers with the id of an existing job
CreateJobExisting(c) ==
    /\ api[c].pc = "idle"
    /\ \E req \in ApiRequests : ValidRequest(req) /\ IdempotentMatches(req) # {}
    /\ UNCHANGED vars

\* create_job found no job for the same work and goes on to the insert
CreateJobCheck(c) ==
    /\ api[c].pc = "idle"
    /\ Len(jobs) < MaxApiJobs
    /\ \E req \in ApiRequests :
          /\ ValidRequest(req)
          /\ IdempotentMatches(req) = {}
          /\ api' = [api EXCEPT ![c] = [pc |-> "insert", req |-> req]]
    /\ UNCHANGED <<jobs, artifacts, edges, renderings, r2, handlers, merge, runner, nextId, svc>>
    /\ UNCHANGED ghost

\* create_job inserts the pending row and answers with its id
CreateJobInsert(c) ==
    /\ api[c].pc = "insert"
    /\ InsertRow(api[c].req.project, api[c].req.type, api[c].req.payload)
    /\ api' = [api EXCEPT ![c] = [pc |-> "idle", req |-> NoRequest]]
    /\ UNCHANGED svc

NextApi ==
    \/ \E c \in Clients : CreateJobRejected(c)
    \/ \E c \in Clients : CreateJobExisting(c)
    \/ \E c \in Clients : CreateJobCheck(c)
    \/ \E c \in Clients : CreateJobInsert(c)

SpecApi == Init /\ [][NextApi]_vars

(***************************************************************************)
(* services/job_runner.py: JobRunner.claim_job, run_pending_jobs and       *)
(* execute_job, called by several callers on one Data Store                *)
(***************************************************************************)
\* the ids of the rows a select on status = pending returns, in id order
RECURSIVE PendingFrom(_)
PendingFrom(j) ==
    IF j > Len(jobs) THEN <<>>
    ELSE IF jobs[j].status = "pending" THEN <<j>> \o PendingFrom(j + 1)
    ELSE PendingFrom(j + 1)

\* run_pending_jobs: the select
SelectPending(c) ==
    /\ svc[c].pc = "idle"
    /\ svc' = [svc EXCEPT ![c] = [pc |-> "loop", todo |-> PendingFrom(1), bundle |-> NoBundle]]
    /\ UNCHANGED <<jobs, artifacts, edges, renderings, r2, handlers, merge, api, runner, nextId>>
    /\ UNCHANGED ghost

\* claim_job returns job j, and the caller hands it to execute_job
SvcClaim(c) ==
    /\ svc[c].pc = "idle"
    /\ \E j \in 1..Len(jobs) :
          /\ claim_next_job(j)
          /\ svc' = [svc EXCEPT ![c] = [pc |-> "loop", todo |-> <<j>>, bundle |-> NoBundle]]
          /\ claimLog' = claimLog \cup {<<c, j>>}
    /\ UNCHANGED <<artifacts, edges, renderings, r2, handlers, merge, api, runner, nextId>>
    /\ UNCHANGED <<runLog, failLog, lostLog, collabLog>>

\* claim_job returns None although the RPC ran: the except branch
SvcClaimNone(c) ==
    /\ svc[c].pc = "idle"
    /\ \E j \in 1..Len(jobs) : claim_next_job(j)
    /\ UNCHANGED <<artifacts, edges, renderings, r2, handlers, merge, api, svc, runner, nextId>>
    /\ UNCHANGED ghost

\* execute_job: _dispatch_job routes every type to _handle_stub, which
\* returns one "text" artifact with a fresh id
ExecuteDispatch(c) ==
    /\ svc[c].pc = "loop"
    /\ svc[c].todo # <<>>
    /\ svc' = [svc EXCEPT ![c].pc = "commit",
                          ![c].bundle = StubHandler_run(Head(svc[c].todo))]
    /\ nextId' = nextId + 1
    /\ runLog' = runLog \cup {<<c, Head(svc[c].todo)>>}
    /\ UNCHANGED <<jobs, artifacts, edges, renderings, r2, handlers, merge, api, runner>>
    /\ UNCHANGED <<claimLog, failLog, lostLog, collabLog>>

\* execute_job: the commit_job_bundle RPC returns, or raises with nothing
\* applied, or raises after the store applied it
ExecuteCommit(c) ==
    /\ svc[c].pc = "commit"
    /\ \E outcome \in CommitOutcomes :
          /\ IF outcome = "rejected" THEN UNCHANGED store
             ELSE commit_job_bundle(svc[c].bundle)
          /\ svc' = [svc EXCEPT
                        ![c].pc = IF outcome = "returned" THEN "loop" ELSE "fail",
                        ![c].todo = IF outcome = "returned" THEN Tail(@) ELSE @,
                        ![c].bundle = NoBundle]
    /\ UNCHANGED <<r2, handlers, merge, api, runner, nextId>>
    /\ UNCHANGED ghost

\* execute_job, except branch: update_job_status(job.id, FAILED, error), an
\* update by id alone
ExecuteFail(c) ==
    /\ svc[c].pc = "fail"
    /\ jobs' = [jobs EXCEPT ![Head(svc[c].todo)].status = "failed",
                            ![Head(svc[c].todo)].error = "commit_failed"]
    /\ svc' = [svc EXCEPT ![c].pc = "loop", ![c].todo = Tail(@)]
    /\ failLog' = failLog \cup {Head(svc[c].todo)}
    /\ UNCHANGED <<artifacts, edges, renderings, r2, handlers, merge, api, runner, nextId>>
    /\ UNCHANGED <<claimLog, runLog, lostLog, collabLog>>

\* run_pending_jobs returns: the rows read are all done
RunPendingReturn(c) ==
    /\ svc[c].pc = "loop"
    /\ svc[c].todo = <<>>
    /\ svc' = [svc EXCEPT ![c].pc = "idle"]
    /\ UNCHANGED <<jobs, artifacts, edges, renderings, r2, handlers, merge, api, runner, nextId>>
    /\ UNCHANGED ghost

EnqueuePending ==
    /\ Len(jobs) < MaxPendingJobs
    /\ \E t \in {"ingest", "generate"} : InsertJob(t, AnyPayload)

NextPending ==
    \/ EnqueuePending
    \/ \E c \in Callers : SelectPending(c)
    \/ \E c \in Callers : SvcClaim(c)
    \/ \E c \in Callers : SvcClaimNone(c)
    \/ \E c \in Callers : ExecuteDispatch(c)
    \/ \E c \in Callers : ExecuteCommit(c)
    \/ \E c \in Callers : ExecuteFail(c)
    \/ \E c \in Callers : RunPendingReturn(c)

SpecPending == Init /\ [][NextPending]_vars

(***************************************************************************)
(* Properties                                                              *)
(***************************************************************************)
ArtifactsOf(j) == {a \in artifacts : a.job = j}
IdsOf(S) == {a.id : a \in S}
Terminal == {"completed", "failed"}

\* C1: under any interleaving of runner instances, no job is returned by
\* claim_job to more than one instance, no job's handler is run by more than
\* one instance, and no two instances hold the same job at once.
C1_ExclusiveClaim ==
    /\ \A x \in claimLog : \A y \in claimLog : x[2] = y[2] => x[1] = y[1]
    /\ \A x \in runLog : \A y \in runLog : x[2] = y[2] => x[1] = y[1]
    /\ \A ra \in Runners : \A rb \in Runners :
          (ra # rb /\ runner[ra].job # NoJob) => runner[ra].job # runner[rb].job

\* two instances hold a job each at the same time, one of them past its handler
C1_Witness ==
    \E ra \in Runners : \E rb \in Runners :
        /\ ra # rb
        /\ runner[ra].pc = "commit"
        /\ runner[rb].pc = "process"
        /\ Cardinality(claimLog) = 2

\* C2: for every job, either all of its bundle is persisted and the job is
\* completed with the bundle's result, or nothing of the bundle is persisted.
C2_AllOrNothing ==
    \A j \in 1..Len(jobs) :
        \/ /\ ArtifactsOf(j) = {}
           /\ \A r \in Runners : runner[r].bundle.job = j =>
                 /\ runner[r].bundle.edges \cap edges = {}
                 /\ runner[r].bundle.renderings \cap renderings = {}
        \/ /\ jobs[j].status = "completed"
           /\ jobs[j].result = IdsOf(ArtifactsOf(j))
           /\ \A r \in Runners : runner[r].bundle.job = j =>
                 /\ runner[r].bundle.artifacts \subseteq artifacts
                 /\ runner[r].bundle.edges \subseteq edges
                 /\ runner[r].bundle.renderings \subseteq renderings

\* C3: a job whose status is failed has no artifact and no edge persisted on
\* its behalf.
C3_FailedHasNothing ==
    \A j \in 1..Len(jobs) :
        jobs[j].status = "failed" =>
            /\ ArtifactsOf(j) = {}
            /\ \A e \in edges : e.child \notin IdsOf(ArtifactsOf(j))

\* C4: a job's status only moves pending -> running -> completed | failed;
\* completed and failed are terminal.
LegalMove(a, b) ==
    \/ a = b
    \/ a = "pending" /\ b = "running"
    \/ a = "running" /\ b \in Terminal

C4_StatusMoves ==
    [][\A j \in 1..Len(jobs) : LegalMove(jobs[j].status, jobs'[j].status)]_vars

\* C5 as claimed: every job that claim_job returned to a runner eventually
\* reaches status completed or failed.
C5_ClaimedEnds ==
    \A j \in 1..MaxJobs :
        (\E r \in Runners : <<r, j>> \in claimLog)
            ~> (j <= Len(jobs) /\ jobs[j].status \in Terminal)

\* C5: every job that claim_job returned to a runner eventually reaches status
\* completed or failed, unless the fail_job request for it did not reach the
\* store, in which case it stays running.
C5_ClaimedEndsOrLost ==
    \A j \in 1..MaxJobs :
        (\E r \in Runners : <<r, j>> \in claimLog)
            ~> (j <= Len(jobs) /\ (jobs[j].status \in Terminal \/ j \in lostLog))

\* a claimed job ended failed through fail_job and another ended completed
C5_Witness ==
    /\ \E x \in claimLog : jobs[x[2]].status = "failed" /\ x[2] \in failLog
    /\ \E x \in claimLog : jobs[x[2]].status = "completed" /\ x[2] \notin failLog

\* C6: no exception ends the loop: from every position the runner's next
\* step stays in the loop, an exception raised while a claimed job is
\* processed (handler lookup, handler.run, commit_bundle) takes the runner to
\* the fail_job call for that job, and after fail_job the runner is back at
\* the claim.
C6_Step(r) ==
    LET a == runner[r]
        b == runner'[r]
    IN
    b # a =>
        /\ a.pc = "claim" => b.pc = "process"
        /\ a.pc = "process" => b.pc \in {"commit", "fail"} /\ b.job = a.job
        /\ a.pc = "commit" =>
              \/ b.pc = "claim" /\ jobs'[a.job].status = "completed"
              \/ b.pc = "fail" /\ b.job = a.job
        /\ a.pc = "fail" => b.pc = "claim" /\ a.job \in failLog'

C6_LoopSurvives == [][\A r \in Runners : C6_Step(r)]_vars

\* a runner that failed one job is processing the next one
C6_Witness ==
    \E r \in Runners : \E j \in failLog :
        /\ <<r, j>> \in claimLog
        /\ runner[r].pc = "process"
        /\ runner[r].job # j

\* C7: a claimed job whose type has no handler in the registry is handed to
\* fail_job; no handler runs for it, no collaborator is invoked for it and
\* nothing is committed for it.
C7_NoHandlerFails ==
    \A x \in claimLog :
        jobs[x[2]].type \notin DOMAIN handlers =>
            /\ \A r \in Runners : <<r, x[2]>> \notin runLog
            /\ x[2] \notin collabLog
            /\ ArtifactsOf(x[2]) = {}
            /\ \A r \in Runners : runner[r].bundle.job # x[2]
            /\ \/ x[2] \in failLog
               \/ runner[x[1]].job = x[2] /\ runner[x[1]].pc \in {"process", "fail"}

\* a generate job, which the registry does not know, was failed by fail_job
C7_Witness ==
    \E j \in 1..Len(jobs) :
        /\ jobs[j].type = "generate"
        /\ j \in failLog
        /\ jobs[j].status = "failed"
        /\ jobs[j].error = "no_handler"

\* C8: from its start until it returns or raises, a handler run writes
\* nothing persistent.
C8_HandlerWritesNothing ==
    [][\A r \in WiredRunners :
          (runner[r].pc = "process" /\ <<r, runner[r].job>> \in runLog'
               /\ runner'[r].pc \in {"commit", "fail"})
              => UNCHANGED <<jobs, artifacts, edges, renderings, r2>>]_vars

\* C9: no persisted edge and no edge of a bundle has a knowledge_core artifact
\* as its child, and the bundle of an ingest job has no edge.
ChildIsCore(e, S) == \E a \in S : a.id = e.child /\ a.type = "knowledge_core"

Acyclic(E) ==
    \A S \in SUBSET ({e.parent : e \in E} \cup {e.child : e \in E}) :
        S # {} => \E n \in S : \A e \in E : e.child = n => e.parent \notin S

AboutToRun(r, h) ==
    /\ runner[r].pc = "process"
    /\ HandlerOf(jobs[runner[r].job].type) = h

TypeOf(id) == (CHOOSE a \in get_artifact(id) : TRUE).type
SourcesExist(p) == \A i \in 1..Len(p.source_ids) : get_artifact(p.source_ids[i]) # {}
LegalPair(s, t) == s \in DOMAIN ALLOWED_GENERATIONS /\ t \in ALLOWED_GENERATIONS[s]
RichAndRendered(env) == env.gen = "model" /\ env.rich /\ env.render = "stored"

\* the bundle has one new artifact of the target type and one edge from each
\* source id to it
OneArtifactPerJob(b, p) ==
    /\ Cardinality(b.artifacts) = 1
    /\ \A a \in b.artifacts :
          /\ a.type = p.target_type
          /\ a.id \notin IdsOf(artifacts)
          /\ Cardinality(b.edges) = Len(p.source_ids)
          /\ \A i \in 1..Len(p.source_ids) :
                \E e \in b.edges : e.parent = p.source_ids[i] /\ e.child = a.id /\ e.n = i

\* C11: a generate job over k >= 1 existing sources, each of a type from
\* which ALLOWED_GENERATIONS allows the target, whose generator output is
\* rich and whose binary renders, returns a bundle with exactly one new
\* artifact of the target type and exactly k edges, one from each source id.
C11_LegalGenerates ==
    \A r \in WiredRunners :
        AboutToRun(r, "GenerateHandler") =>
            \A p \in PayloadsOf(jobs[runner[r].job], GeneratePayloads) :
            \A env \in GenerateEnv :
                (/\ Len(p.source_ids) >= 1
                 /\ SourcesExist(p)
                 /\ \A i \in 1..Len(p.source_ids) :
                        LegalPair(TypeOf(p.source_ids[i]), p.target_type)
                 /\ RichAndRendered(env))
                => LET out == GenerateHandler_run(runner[r].job, p, env) IN
                   /\ out.err = ""
                   /\ OneArtifactPerJob(out.bundle, p)

\* C12: a generate job with a source whose type does not allow the target
\* in ALLOWED_GENERATIONS raises: no bundle, the job fails.
C12_IllegalFails ==
    \A r \in WiredRunners :
        AboutToRun(r, "GenerateHandler") =>
            \A p \in PayloadsOf(jobs[runner[r].job], GeneratePayloads) :
            \A env \in GenerateEnv :
                (/\ Len(p.source_ids) >= 1
                 /\ SourcesExist(p)
                 /\ \E i \in 1..Len(p.source_ids) :
                        ~LegalPair(TypeOf(p.source_ids[i]), p.target_type))
                => LET out == GenerateHandler_run(runner[r].job, p, env) IN
                   /\ out.err # ""
                   /\ out.bundle = NoBundle

\* the errors of a job's validation: unknown job type, missing payload field,
\* invalid ingest source_type, unknown generate target_type
ValidationErrors ==
    {"no_handler", "invalid_source_type", "source_ref_required",
     "source_ids_required", "target_type_required", "unknown_target"}

\* C13: a job that fails with a validation error had no collaborator invoked
\* for it (upload/extractor, CoreMerger, generator, binary renderer).
C13_ValidationFirst ==
    \A r \in WiredRunners :
        (runner[r].pc = "fail" /\ runner[r].err \in ValidationErrors)
            => runner[r].job \notin collabLog

\* the first position of source_ids whose artifact does not exist
FirstMissing(p) ==
    CHOOSE i \in 1..Len(p.source_ids) :
        /\ get_artifact(p.source_ids[i]) = {}
        /\ \A k \in 1..(i - 1) : get_artifact(p.source_ids[k]) # {}

\* every source id before position i resolves to a core
ResolvesBefore(p, i) ==
    \A k \in 1..(i - 1) :
        ResolveSource(p.source_ids[k], Len(p.source_ids), p.target_type) \notin ResolveErrors

MeetsThreshold(a) ==
    CASE a.type = "quiz" -> a.items >= MinQuiz
      [] a.type = "exam" -> a.items >= MinExam
      [] a.type = "flashcards" -> a.items >= MinFlashcards
      [] a.type = "slides" -> a.items >= MinSlides
      [] a.type = "notes" -> NotesBodyLen >= MinNotesBody
      [] OTHER -> TRUE

\* C15: no bundle returned by GenerateHandler, and so no persisted artifact,
\* is below the threshold of its type, on the generator path and on the
\* direct quiz-to-flashcards path; a job that failed the semantic validation
\* has no bundle and nothing persisted.
C15_Thresholds ==
    /\ \A a \in artifacts : MeetsThreshold(a)
    /\ \A r \in WiredRunners :
          /\ \A a \in runner[r].bundle.artifacts : MeetsThreshold(a)
          /\ (runner[r].pc = "fail" /\ runner[r].err = "semantic_validation") =>
                /\ runner[r].bundle = NoBundle
                /\ ArtifactsOf(runner[r].job) = {}

\* a job failed the semantic validation while a generated artifact that
\* passed it is persisted
C15_Witness ==
    /\ \E r \in WiredRunners : runner[r].pc = "fail" /\ runner[r].err = "semantic_validation"
    /\ \E a \in artifacts : a.type \in TargetTypes /\ a.items >= MinItems(a.type)

\* C16: every exam or slides artifact of a bundle, and so every persisted
\* one, carries a binary pointer; a job whose binary renderer returned none
\* has no bundle and nothing persisted, although its content was generated
\* and passed the validation.
C16_BinaryRequired ==
    /\ \A a \in artifacts : a.type \in {"exam", "slides"} => a.binary
    /\ \A r \in WiredRunners :
          /\ \A a \in runner[r].bundle.artifacts : a.type \in {"exam", "slides"} => a.binary
          /\ (runner[r].pc = "fail" /\ runner[r].err = "binary_failed") =>
                /\ runner[r].bundle = NoBundle
                /\ ArtifactsOf(runner[r].job) = {}
                /\ runner[r].job \in collabLog

\* an exam with its binary is persisted and a later job failed on its binary
C16_Witness ==
    /\ \E a \in artifacts : a.type = "exam" /\ a.binary
    /\ \E r \in WiredRunners : runner[r].pc = "fail" /\ runner[r].err = "binary_failed"

\* C17: every ingest job that ended completed, processed by the handler the
\* registry holds for ingest, added exactly 2 artifacts, one of a source type
\* and one of type knowledge_core, and no edge.
C17_IngestAddsTwo ==
    \A j \in 1..Len(jobs) :
        (jobs[j].type = "ingest" /\ jobs[j].status = "completed") =>
            /\ Cardinality(ArtifactsOf(j)) = 2
            /\ \E a \in ArtifactsOf(j) : a.type = "knowledge_core"
            /\ \E a \in ArtifactsOf(j) : a.type \in VALID_SOURCE_TYPES
            /\ \A e \in edges : e.child \notin IdsOf(ArtifactsOf(j))

\* the six structural sections of a knowledge core
CoreSections ==
    {"concepts", "section_hierarchy", "notes", "definitions", "examples", "key_facts"}

\* C18: IngestHandler returns a bundle only if the extracted text has at
\* least 50 characters and the generated core has every section non-empty
\* and no forbidden token in a text field; on any violation it raises and
\* returns no bundle, and the failing job has nothing persisted.
C18_IngestValidates ==
    \A r \in WiredRunners :
        /\ AboutToRun(r, "IngestHandler") =>
              \A p \in PayloadsOf(jobs[runner[r].job], IngestPayloads) :
              \A env \in IngestEnv :
                  LET out == IngestHandler_run(runner[r].job, p, env)
                      valid == /\ env.extract = "text"
                               /\ env.textLen >= MinTextLen
                               /\ env.core \notin {"raises", "none"}
                               /\ env.core \notin CoreSections
                               /\ env.core # "forbidden_token"
                  IN /\ out.err = "" => valid
                     /\ ~valid => out.err # "" /\ out.bundle = NoBundle
        /\ (runner[r].pc = "fail"
               /\ runner[r].err \in {"text_too_short", "kc5_violation", "kc4_violation"}) =>
              /\ runner[r].bundle = NoBundle
              /\ ArtifactsOf(runner[r].job) = {}

\* an ingest job committed its validated core and another failed the KC-5 check
C18_Witness ==
    /\ \E a \in artifacts : a.type = "knowledge_core"
    /\ \E r \in WiredRunners : runner[r].pc = "fail" /\ runner[r].err = "kc5_violation"

SetOf(s) == {s[k] : k \in 1..Len(s)}

\* C19: whatever the number of cores, no call of merge_summaries receives
\* more than 3 summaries.
C19_MergeAtMostThree == \A n \in merge.calls : n <= DirectMax

\* C20: merge_cores over five cores yields the same set of concepts as the
\* flat single-pass merge of the five summaries (both by the fallback merge,
\* no model configured).
C20_HierarchicalIsFlat ==
    (merge.pc = "done" /\ ~merge.hasModel /\ Len(merge.cores) = 5) =>
        SetOf(merge.result.all_concepts)
            = SetOf(fallback_merge(merge.summaries).all_concepts)

\* C21: for every N >= 1, the CombinedContext returned by merge_cores has
\* source_count = N and lists the title of every input core in source_titles.
C21_CountsEverySource ==
    (merge.pc = "done") =>
        /\ merge.result.source_count = Len(merge.cores)
        /\ \A i \in 1..Len(merge.cores) :
              merge.cores[i].title \in SetOf(merge.result.source_titles)

C24_SummaryBounded ==
    \A i \in 1..Len(merge.summaries) :
        /\ Len(merge.summaries[i].key_concepts) <= SummaryCap
        /\ Len(merge.summaries[i].key_facts) <= SummaryCap

KeyConcepts(summaries) == [k \in 1..Len(summaries) |-> summaries[k].key_concepts]
KeyFacts(summaries) == [k \in 1..Len(summaries) |-> summaries[k].key_facts]

\* C26: the fallback merge of two or more summaries returns as all_concepts
\* and as all_facts the union of the inputs' lists, without duplicates and in
\* order of first appearance, so that every concept of every input is there.
C26_FallbackIsUnion ==
    (merge.pc = "done" /\ ~merge.hasModel
        /\ Len(merge.cores) >= 2 /\ Len(merge.cores) <= DirectMax) =>
        /\ merge.result.all_concepts = Dedup(Extend(KeyConcepts(merge.summaries)))
        /\ merge.result.all_facts = Dedup(Extend(KeyFacts(merge.summaries)))
        /\ \A k \in 1..Len(merge.summaries) :
              SetOf(merge.summaries[k].key_concepts) \subseteq SetOf(merge.result.all_concepts)

\* C25: in GenerateHandler.run, whenever more than one context was resolved
\* the generator receives the output of CoreMerger.merge_cores, and with
\* exactly one context CoreMerger is not involved.
C25_ManyGoThroughMerger ==
    \A r \in WiredRunners :
        AboutToRun(r, "GenerateHandler") =>
            \A p \in PayloadsOf(jobs[runner[r].job], GeneratePayloads) :
            \A env \in GenerateEnv :
                LET out == GenerateHandler_run(runner[r].job, p, env) IN
                "generator" \in out.calls =>
                    ("core_merger" \in out.calls <=> Len(p.source_ids) > 1)

\* the source ids a generate payload stands for (GenerateHandler.run)
SourcesOf(p) ==
    IF p.source_artifact_ids # <<>> THEN p.source_artifact_ids
    ELSE IF p.source_artifact_id # NoSource THEN <<p.source_artifact_id>>
    ELSE <<>>

SameWork(row, req) ==
    /\ row.project = req.project
    /\ row.type = req.type
    /\ SourcesOf(row.payload) = SourcesOf(req.payload)
    /\ row.payload.target_type = req.payload.target_type

\* C27: the idempotency check of create_job answers with an existing job's
\* id only when that job is for the same work as the request: same project,
\* same source artifacts, same target_type, whichever field names the sources.
C27_ExistingIsSameWork ==
    \A req \in ApiRequests :
        ValidRequest(req) =>
            \A j \in IdempotentMatches(req) : SameWork(jobs[j], req)

SameTriple(a, b) ==
    /\ a.project = b.project
    /\ a.payload.source_artifact_id = b.payload.source_artifact_id
    /\ a.payload.target_type = b.payload.target_type

LiveGenerate(row) ==
    row.type = "generate" /\ row.status \in {"pending", "running", "completed"}

\* C28: however concurrent create_job requests interleave, no two generate
\* jobs that are pending, running or completed have the same project,
\* source_artifact_id and target_type.
C28_OneJobPerTriple ==
    \A j \in 1..Len(jobs), k \in 1..Len(jobs) :
        (j # k /\ LiveGenerate(jobs[j]) /\ LiveGenerate(jobs[k]))
            => ~SameTriple(jobs[j], jobs[k])

\* C29: however concurrent callers of run_pending_jobs, or of claim_job
\* followed by execute_job, interleave, every job is executed by at most one
\* of them and has at most one bundle committed.
C29_ExecutedOnce ==
    \A j \in 1..Len(jobs) :
        /\ Cardinality({c \in Callers : <<c, j>> \in runLog}) <= 1
        /\ Cardinality({a \in artifacts : a.job = j}) <= 1

\* artifacts.project_id: the project of the job that created the artifact
ProjectOf(id) == jobs[(CHOOSE a \in artifacts : a.id = id).job].project

\* C30: every committed edge joins two artifacts of one project, the
\* project of the job that emitted it; a generate job over a source of
\* another project leaves no edge and no derived artifact.
C30_EdgesStayInProject ==
    \A e \in edges :
        /\ \E a \in artifacts : a.id = e.parent
        /\ \E a \in artifacts : a.id = e.child
        /\ ProjectOf(e.parent) = ProjectOf(e.child)

====
